---------------------------- MODULE Spec2Model ----------------------------
(***************************************************************************)
(* A model of maturity_assessment.py: column-name normalisation, category *)
(* mapping, category scoring, the recommendation protocol and its prompt, *)
(* shape resolution and indicator placement on a slide, and the           *)
(* orchestration loop of main.                                             *)
(*                                                                         *)
(* Python strings are sequences of one-character strings, so that         *)
(* str.lower, str.replace, str.split, str.strip, re.sub and slicing are   *)
(* computed character by character as the interpreter computes them.      *)
(***************************************************************************)
EXTENDS Integers, Sequences, FiniteSets, TLC

VARIABLES
    \* ---- clean_column_name applied to a label, then to its own result
    normPc, col_name, cleaned, recleaned,
    \* ---- the dataset and the mappings setup_mappings builds from it
    mapPc, columns,
    COLUMN_NAME_MAPPING, CLEANED_TO_ORIGINAL_COL, QUESTION_CATEGORIES,
    QUESTION_TO_CATEGORY, question_columns,
    \* ---- one respondent row and the scores calculate_category_scores returns
    client_row, scores,
    \* ---- generate_recommendations: the text-generation service's outcome for
    \*      the last call, what the function returned, and the calls counted
    service_outcome, rec_result, service_calls, rec_invocations,
    \* ---- main: the sheet, the output directory and the generation loop
    mainPc,            \* where main is
    sheet,             \* what the Google Sheet holds: columns and rows
    initial_files,     \* the output directory when main started
    files,             \* the output directory now
    scores_df,         \* the rows of scores_df
    idx,               \* the 1-based position of the loop in scores_df
    dispositions,      \* how the turn of each respondent reached so far ended
    generated_files, skipped_files,
    prs,               \* the slides of the presentation being generated
    CATEGORY_TO_SLIDE,
    cat_pos,           \* the 1-based position of the category loop
    turn,              \* what has been done in the current respondent's turn
    cat_log,           \* what has been done for each category in this turn
    \* ---- the prompt of generate_recommendations: the category's questions,
    \*      the responses handed in, and the two listings built from them
    promptPc, questions_in_category, client_responses,
    all_questions_context, focus_questions,
    \* ---- one slide: its shapes, what find_text_boxes returned for it, the
    \*      score written into it and its shapes afterwards
    slidePc, slide, slide_elements, slide_score, slide_after

normVars == <<normPc, col_name, cleaned, recleaned>>

mapVars == <<mapPc, columns, COLUMN_NAME_MAPPING, CLEANED_TO_ORIGINAL_COL,
             QUESTION_CATEGORIES, QUESTION_TO_CATEGORY, question_columns>>

scoreVars == <<client_row, scores>>

recVars == <<service_outcome, rec_result, service_calls, rec_invocations>>

mainVars == <<mainPc, sheet, initial_files, files, scores_df, idx, dispositions,
              generated_files, skipped_files, prs, CATEGORY_TO_SLIDE, cat_pos,
              turn, cat_log>>

promptVars == <<promptPc, questions_in_category, client_responses,
                all_questions_context, focus_questions>>

slideVars == <<slidePc, slide, slide_elements, slide_score, slide_after>>

vars == <<normVars, mapVars, scoreVars, recVars, mainVars, promptVars, slideVars>>

\* what the actions of one specification leave alone
outsideNorm == <<mapVars, scoreVars, recVars, mainVars, promptVars, slideVars>>
outsideMap == <<normVars, scoreVars, recVars, mainVars, promptVars, slideVars>>
outsideScore == <<normVars, recVars, mainVars, promptVars, slideVars>>
outsideRec == <<normVars, mapVars, scoreVars, mainVars, promptVars, slideVars>>
outsideMain == <<normVars, scoreVars, recVars, promptVars, slideVars>>
outsidePrompt == <<normVars, mapVars, scoreVars, recVars, mainVars, slideVars>>
outsideSlide == <<normVars, mapVars, scoreVars, recVars, mainVars, promptVars>>

PromptIdle ==
    /\ promptPc = "idle"
    /\ questions_in_category = <<>>
    /\ client_responses = <<>>
    /\ all_questions_context = <<>>
    /\ focus_questions = <<>>

SlideIdle ==
    /\ slidePc = "idle"
    /\ slide = <<>>
    /\ slide_elements = [raised |-> FALSE, score |-> 0, recommendations |-> 0,
                         orange_circle |-> 0, line |-> 0]
    /\ slide_score = [kind |-> "none"]
    /\ slide_after = <<>>

-----------------------------------------------------------------------------
(* Generic string helpers (Python str semantics on character sequences).   *)

Min(a, b) == IF a <= b THEN a ELSE b
Max(a, b) == IF a >= b THEN a ELSE b

\* s[:n]
Prefix(s, n) == SubSeq(s, 1, Min(n, Len(s)))

\* s[n:]  (0-based n)
Suffix(s, n) == SubSeq(s, n + 1, Len(s))

\* the characters \s matches and str.strip() removes
WhitespaceChars == {" ", "\t", "\n", "\r"}

DigitSeq == <<"0", "1", "2", "3", "4", "5", "6", "7", "8", "9">>

DigitChars == {DigitSeq[i] : i \in 1..10}

UpperChars ==
    <<"A", "B", "C", "D", "E", "F", "G", "H", "I", "J", "K", "L", "M",
      "N", "O", "P", "Q", "R", "S", "T", "U", "V", "W", "X", "Y", "Z">>

LowerChars ==
    <<"a", "b", "c", "d", "e", "f", "g", "h", "i", "j", "k", "l", "m",
      "n", "o", "p", "q", "r", "s", "t", "u", "v", "w", "x", "y", "z">>

LowerSet == {LowerChars[i] : i \in 1..26}

\* str.lower() on one character
LowerChar(c) ==
    IF \E i \in 1..26 : UpperChars[i] = c
    THEN LowerChars[CHOOSE i \in 1..26 : UpperChars[i] = c]
    ELSE c

\* str.lower()
Lower(s) == [i \in 1..Len(s) |-> LowerChar(s[i])]

\* str.replace(a, b) for single characters a, b
ReplaceChar(s, a, b) == [i \in 1..Len(s) |-> IF s[i] = a THEN b ELSE s[i]]

\* str.strip()
RECURSIVE LStrip(_)
LStrip(s) ==
    IF s # <<>> /\ s[1] \in WhitespaceChars THEN LStrip(Tail(s)) ELSE s

RECURSIVE RStrip(_)
RStrip(s) ==
    IF s # <<>> /\ s[Len(s)] \in WhitespaceChars
    THEN RStrip(SubSeq(s, 1, Len(s) - 1))
    ELSE s

Strip(s) == RStrip(LStrip(s))

-----------------------------------------------------------------------------
(* clean_column_name                                                       *)

\* re.sub(r'[^a-z0-9\s]', '', s)
KeptByCleaner(c) == c \in LowerSet \cup DigitChars \cup WhitespaceChars

RemoveSpecial(s) == SelectSeq(s, KeptByCleaner)

\* re.sub(r'\s+', ' ', s)
RECURSIVE CollapseWhitespace(_)
CollapseWhitespace(s) ==
    IF s = <<>> THEN <<>>
    ELSE IF s[1] \in WhitespaceChars
         THEN <<" ">> \o CollapseWhitespace(LStrip(s))
         ELSE <<s[1]>> \o CollapseWhitespace(Tail(s))

clean_column_name(name) ==
    LET lowered   == Lower(name)
        unhyphen  == ReplaceChar(lowered, "-", " ")
        stripped  == RemoveSpecial(unhyphen)
        collapsed == CollapseWhitespace(stripped)
    IN  ReplaceChar(Strip(collapsed), " ", "_")

-----------------------------------------------------------------------------
(* setup_mappings                                                          *)

\* 'Timestamp'
TimestampCol == <<"T", "i", "m", "e", "s", "t", "a", "m", "p">>

\* 'Email Address'
EmailCol == <<"E", "m", "a", "i", "l", " ", "A", "d", "d", "r", "e", "s", "s">>

MetadataCols == {TimestampCol, EmailCol}

\* the keys of QUESTION_CATEGORIES, in insertion order
CategoryOrder ==
    <<"Tech & Data", "Campaigning & Assets", "Segmentation & Personalisation",
      "Reporting & Insights", "People & Operations">>

Categories == {CategoryOrder[i] : i \in 1..Len(CategoryOrder)}

\* cleaned_questions[from:to] of each category (0-based, end exclusive)
CategorySlicesOverlapping ==
    [c \in Categories |->
        CASE c = "Tech & Data"                    -> [from |-> 0,  to |-> 5]
          [] c = "Campaigning & Assets"           -> [from |-> 4,  to |-> 11]
          [] c = "Segmentation & Personalisation" -> [from |-> 11, to |-> 14]
          [] c = "Reporting & Insights"           -> [from |-> 14, to |-> 20]
          [] c = "People & Operations"            -> [from |-> 20, to |-> 24]]

CategorySlices ==
    [c \in Categories |->
        CASE c = "Tech & Data"                    -> [from |-> 0,  to |-> 5]
          [] c = "Campaigning & Assets"           -> [from |-> 5,  to |-> 11]
          [] c = "Segmentation & Personalisation" -> [from |-> 11, to |-> 14]
          [] c = "Reporting & Insights"           -> [from |-> 14, to |-> 20]
          [] c = "People & Operations"            -> [from |-> 20, to |-> 24]]

\* a Python slice s[from:to] with 0 <= from <= to: both ends clamp to len(s)
Slice(s, from, to) == SubSeq(s, Min(from, Len(s)) + 1, Min(to, Len(s)))

Range(s) == {s[i] : i \in 1..Len(s)}

\* {col: clean_column_name(col) for col in df.columns}
ColumnNameMappingOf(cols) == [c \in Range(cols) |-> clean_column_name(c)]

\* [col for col in df.columns if col not in ['Timestamp', 'Email Address']]
IsQuestionCol(c) == c \notin MetadataCols

QuestionColumnsOf(cols) == SelectSeq(cols, IsQuestionCol)

\* [COLUMN_NAME_MAPPING[q] for q in question_columns]
CleanedQuestionsOf(mapping, qcols) == [i \in 1..Len(qcols) |-> mapping[qcols[i]]]

QuestionCategoriesOf(cleaned_questions) ==
    [c \in Categories |->
        Slice(cleaned_questions, CategorySlices[c].from, CategorySlices[c].to)]

\* the reverse mapping is filled category by category in insertion order, so
\* a key of several categories keeps the last one
QuestionToCategoryOf(cats) ==
    LET keys == UNION {Range(cats[c]) : c \in Categories}
        LastCat(k) ==
            CategoryOrder[CHOOSE i \in 1..Len(CategoryOrder) :
                /\ k \in Range(cats[CategoryOrder[i]])
                /\ \A j \in (i + 1)..Len(CategoryOrder) :
                       k \notin Range(cats[CategoryOrder[j]])]
    IN  [k \in keys |-> LastCat(k)]

\* {cleaned: original for original, cleaned in COLUMN_NAME_MAPPING.items()}:
\* of the columns with one cleaned key, the last in column order is kept
CleanedToOriginalOf(mapping, cols) ==
    LET cleanedAt == [i \in 1..Len(cols) |-> mapping[cols[i]]]
        LastCol(k) ==
            cols[CHOOSE i \in 1..Len(cols) :
                /\ cleanedAt[i] = k
                /\ \A j \in (i + 1)..Len(cols) : cleanedAt[j] # k]
    IN  [k \in Range(cleanedAt) |-> LastCol(k)]

MapIdle ==
    /\ mapPc = "idle"
    /\ columns = <<>>
    /\ COLUMN_NAME_MAPPING = <<>>
    /\ CLEANED_TO_ORIGINAL_COL = <<>>
    /\ QUESTION_CATEGORIES = <<>>
    /\ QUESTION_TO_CATEGORY = <<>>
    /\ question_columns = <<>>

\* the state of main once load_data has returned a frame with columns `cols`
MapLoaded(cols) ==
    /\ mapPc = "loaded"
    /\ columns = cols
    /\ COLUMN_NAME_MAPPING = <<>>
    /\ CLEANED_TO_ORIGINAL_COL = <<>>
    /\ QUESTION_CATEGORIES = <<>>
    /\ QUESTION_TO_CATEGORY = <<>>
    /\ question_columns = <<>>

setup_mappings ==
    /\ mapPc = "loaded"
    /\ LET mapping == ColumnNameMappingOf(columns)
           qcols   == QuestionColumnsOf(columns)
           cats    == QuestionCategoriesOf(CleanedQuestionsOf(mapping, qcols))
       IN  /\ COLUMN_NAME_MAPPING' = mapping
           /\ CLEANED_TO_ORIGINAL_COL' = CleanedToOriginalOf(mapping, columns)
           /\ QUESTION_CATEGORIES' = cats
           /\ QUESTION_TO_CATEGORY' = QuestionToCategoryOf(cats)
           /\ question_columns' = qcols
    /\ mapPc' = "mapped"
    /\ UNCHANGED columns

-----------------------------------------------------------------------------
(* calculate_category_scores                                               *)
(*                                                                         *)
(* A cell of the frame is None, NaN, a number or a string.  Numbers are   *)
(* kept in tenths (25 is 2.5), a mean as the pair of the sum of its terms *)
(* in tenths and their count.                                              *)

NoneValue == [kind |-> "none"]
NaNValue == [kind |-> "nan"]
Num(t) == [kind |-> "num", tenths |-> t]
Str(chars) == [kind |-> "str", text |-> chars]

DigitValue(c) == CHOOSE d \in 0..9 : DigitSeq[d + 1] = c

AllDigits(s) == \A i \in 1..Len(s) : s[i] \in DigitChars

RECURSIVE DecimalValue(_)
DecimalValue(s) ==
    IF s = <<>> THEN 0
    ELSE 10 * DecimalValue(SubSeq(s, 1, Len(s) - 1)) + DigitValue(s[Len(s)])

\* float(text) for the texts "<digits>" and "<digits>.<digit>", surrounding
\* whitespace allowed; "nan" gives NaN; any other text here raises ValueError
ParseFloat(text) ==
    LET s == Strip(text)
        n == Len(s)
    IN  IF n >= 1 /\ AllDigits(s)
        THEN Num(10 * DecimalValue(s))
        ELSE IF /\ n >= 3
                /\ s[n - 1] = "."
                /\ s[n] \in DigitChars
                /\ AllDigits(SubSeq(s, 1, n - 2))
        THEN Num(10 * DecimalValue(SubSeq(s, 1, n - 2)) + DigitValue(s[n]))
        ELSE IF Lower(s) = <<"n", "a", "n">>
        THEN NaNValue
        ELSE [kind |-> "ValueError"]

\* float(value)
ToFloat(value) ==
    CASE value.kind = "num" -> value
      [] value.kind = "nan" -> value
      [] value.kind = "str" -> ParseFloat(value.text)
      [] OTHER -> [kind |-> "TypeError"]

\* value is not None and pd.notna(value)
IsPresent(value) == value.kind # "none" /\ value.kind # "nan"

\* 1 <= num_value <= 4
InScoreRangeExclusive(num) == num.kind = "num" /\ 10 < num.tenths /\ num.tenths < 40

InScoreRange(num) == num.kind = "num" /\ 10 <= num.tenths /\ num.tenths <= 40

\* the list category_scores of one category, in question order
RECURSIVE CategoryScoreList(_, _, _)
CategoryScoreList(row, questions, cleaned_to_original) ==
    IF questions = <<>> THEN <<>>
    ELSE LET cleaned_q == Head(questions)
             rest == CategoryScoreList(row, Tail(questions), cleaned_to_original)
             original_col ==
                 IF cleaned_q \in DOMAIN cleaned_to_original
                 THEN cleaned_to_original[cleaned_q] ELSE <<>>
         IN  IF original_col = <<>> \/ original_col \notin DOMAIN row
             THEN rest
             ELSE LET value == row[original_col]
                  IN  IF IsPresent(value) /\ InScoreRange(ToFloat(value))
                      THEN <<ToFloat(value).tenths>> \o rest
                      ELSE rest

RECURSIVE SumSeq(_)
SumSeq(s) == IF s = <<>> THEN 0 ELSE Head(s) + SumSeq(Tail(s))

\* np.mean(category_scores), or None for an empty list
MeanOrNone(category_scores) ==
    IF category_scores # <<>>
    THEN [kind |-> "num", sum |-> SumSeq(category_scores), n |-> Len(category_scores)]
    ELSE NoneValue

calculate_category_scores(row, question_categories, cleaned_to_original) ==
    [category \in DOMAIN question_categories |->
        MeanOrNone(CategoryScoreList(row, question_categories[category],
                                     cleaned_to_original))]

ScoreIdle ==
    /\ client_row = <<>>
    /\ scores = <<>>

-----------------------------------------------------------------------------
(* More of Python's str, for the reply parser.                             *)

\* the 1-based positions at which `sub` occurs in `s`
Occurrences(s, sub) ==
    {i \in 1..(Len(s) - Len(sub) + 1) : SubSeq(s, i, i + Len(sub) - 1) = sub}

\* sub in s
Contains(s, sub) == Occurrences(s, sub) # {}

SetMin(S) == CHOOSE x \in S : \A y \in S : x <= y

\* s.split(sep), sep not empty
RECURSIVE SplitOn(_, _)
SplitOn(s, sep) ==
    IF ~Contains(s, sep) THEN <<s>>
    ELSE LET i == SetMin(Occurrences(s, sep))
         IN  <<SubSeq(s, 1, i - 1)>> \o SplitOn(Suffix(s, i + Len(sep) - 1), sep)

\* s.replace(sub, '')
RECURSIVE RemoveAll(_, _)
RemoveAll(s, sub) ==
    IF ~Contains(s, sub) THEN s
    ELSE LET i == SetMin(Occurrences(s, sub))
         IN  SubSeq(s, 1, i - 1) \o RemoveAll(Suffix(s, i + Len(sub) - 1), sub)

\* s.split(ch) for one character: the pieces between consecutive occurrences
SplitChar(s, ch) ==
    LET at == {i \in 1..Len(s) : s[i] = ch}
        \* the k-th occurrence; 0 before the first, Len(s) + 1 after the last
        Cut(k) == IF k = 0 THEN 0
                  ELSE IF k > Cardinality(at) THEN Len(s) + 1
                  ELSE CHOOSE p \in at : Cardinality({q \in at : q < p}) = k - 1
    IN  [k \in 1..(Cardinality(at) + 1) |-> SubSeq(s, Cut(k - 1) + 1, Cut(k) - 1)]

\* s.split(ch, 1)[-1]: what follows the first ch, or s when there is none
AfterFirst(s, ch) ==
    IF \E i \in 1..Len(s) : s[i] = ch
    THEN Suffix(s, SetMin({i \in 1..Len(s) : s[i] = ch}))
    ELSE s

\* s.lstrip(chars)
RECURSIVE LStripChars(_, _)
LStripChars(s, chars) ==
    IF s # <<>> /\ s[1] \in chars THEN LStripChars(Tail(s), chars) ELSE s

\* [f(x) for x in s]
MapStrip(lines) == [i \in 1..Len(lines) |-> Strip(lines[i])]

-----------------------------------------------------------------------------
(* generate_recommendations: the call of the service and the parsing of   *)
(* its reply (lines 292-337).                                              *)

\* "SUMMARY:"
SummaryMarker ==
    <<"S", "U", "M", "M", "A", "R", "Y", ":">>

\* "RECOMMENDATIONS:"
RecommendationsMarker ==
    <<"R", "E", "C", "O", "M", "M", "E", "N", "D", "A", "T", "I",
      "O", "N", "S", ":">>

\* "Continue building on the recommendations above."
MarkerFiller ==
    <<"C", "o", "n", "t", "i", "n", "u", "e", " ", "b", "u", "i",
      "l", "d", "i", "n", "g", " ", "o", "n", " ", "t", "h", "e",
      " ", "r", "e", "c", "o", "m", "m", "e", "n", "d", "a", "t",
      "i", "o", "n", "s", " ", "a", "b", "o", "v", "e", ".">>

\* "Continue improving in this area."
PlainFiller ==
    <<"C", "o", "n", "t", "i", "n", "u", "e", " ", "i", "m", "p",
      "r", "o", "v", "i", "n", "g", " ", "i", "n", " ", "t", "h",
      "i", "s", " ", "a", "r", "e", "a", ".">>

\* the list returned when the call or the parsing raised
FallbackRecommendations ==
    <<
      <<"R", "e", "c", "o", "m", "m", "e", "n", "d", "a", "t", "i",
        "o", "n", " ", "1", ":", " ", "R", "e", "v", "i", "e", "w",
        " ", "c", "u", "r", "r", "e", "n", "t", " ", "p", "r", "o",
        "c", "e", "s", "s", "e", "s">>,
      <<"R", "e", "c", "o", "m", "m", "e", "n", "d", "a", "t", "i",
        "o", "n", " ", "2", ":", " ", "I", "d", "e", "n", "t", "i",
        "f", "y", " ", "i", "m", "p", "r", "o", "v", "e", "m", "e",
        "n", "t", " ", "a", "r", "e", "a", "s">>,
      <<"R", "e", "c", "o", "m", "m", "e", "n", "d", "a", "t", "i",
        "o", "n", " ", "3", ":", " ", "I", "m", "p", "l", "e", "m",
        "e", "n", "t", " ", "b", "e", "s", "t", " ", "p", "r", "a",
        "c", "t", "i", "c", "e", "s">>,
      <<"R", "e", "c", "o", "m", "m", "e", "n", "d", "a", "t", "i",
        "o", "n", " ", "4", ":", " ", "M", "o", "n", "i", "t", "o",
        "r", " ", "p", "r", "o", "g", "r", "e", "s", "s">>
    >>

\* "Error: "
ErrorPrefix ==
    <<"E", "r", "r", "o", "r", ":", " ">>

\* str(e) of the TypeError of `"SUMMARY:" in None`
NoneContentMessage ==
    <<"a", "r", "g", "u", "m", "e", "n", "t", " ", "o", "f", " ",
      "t", "y", "p", "e", " ", "'", "N", "o", "n", "e", "T", "y",
      "p", "e", "'", " ", "i", "s", " ", "n", "o", "t", " ", "i",
      "t", "e", "r", "a", "b", "l", "e">>

\* str(e) of the IndexError of response.choices[0] on an empty list
NoChoicesMessage ==
    <<"l", "i", "s", "t", " ", "i", "n", "d", "e", "x", " ", "o",
      "u", "t", " ", "o", "f", " ", "r", "a", "n", "g", "e">>

\* summary[:200], lines[0][:200]
SummaryLimit == 200

\* the exception the try block ends with, or none: the service outcome is
\*   [kind |-> "reply", content |-> text]      a reply with text content
\*   [kind |-> "no_content"]                   a reply whose content is None
\*   [kind |-> "no_choices"]                   a reply with an empty choices list
\*   [kind |-> "error", class |-> c, message |-> text]   create() raised
RaisedBy(outcome) ==
    CASE outcome.kind = "reply" -> [class |-> "none"]
      [] outcome.kind = "no_content" ->
            [class |-> "TypeError", message |-> NoneContentMessage]
      [] outcome.kind = "no_choices" ->
            [class |-> "IndexError", message |-> NoChoicesMessage]
      [] outcome.kind = "error" ->
            [class |-> outcome.class, message |-> outcome.message]

\* classes `except Exception` catches
ExceptionClasses ==
    {"APITimeoutError", "APIConnectionError", "APIStatusError",
     "TypeError", "IndexError"}

CaughtOnlyApiErrors(exc) ==
    exc.class \in {"APITimeoutError", "APIConnectionError", "APIStatusError"}

Caught(exc) == exc.class \in ExceptionClasses

\* while len(recommendations) < 4: recommendations.append(filler)
RECURSIVE PadToThree(_, _)
PadToThree(recommendations, filler) ==
    IF Len(recommendations) < 3
    THEN PadToThree(Append(recommendations, filler), filler)
    ELSE recommendations

RECURSIVE PadToFour(_, _)
PadToFour(recommendations, filler) ==
    IF Len(recommendations) < 4
    THEN PadToFour(Append(recommendations, filler), filler)
    ELSE recommendations

\* line[0].isdigit() or line.startswith('-'), for a non-empty stripped line
IsEnumerated(line) == line # <<>> /\ (line[1] \in DigitChars \/ line[1] = "-")

\* line.split('.', 1)[-1].strip() if '.' in line else line.lstrip('- ').strip()
RecOfLine(line) ==
    IF \E i \in 1..Len(line) : line[i] = "."
    THEN Strip(AfterFirst(line, "."))
    ELSE Strip(LStripChars(line, {"-", " "}))

\* the loop of lines 311-316 over recommendations_text.split('\n')
RECURSIVE MarkerRecsOfLines(_)
MarkerRecsOfLines(lines) ==
    IF lines = <<>> THEN <<>>
    ELSE LET line == Strip(Head(lines))
             rest == MarkerRecsOfLines(Tail(lines))
         IN  IF IsEnumerated(line) /\ RecOfLine(line) # <<>>
             THEN <<RecOfLine(line)>> \o rest
             ELSE rest

\* the recommendations parsed in the branch `"SUMMARY:" in result`
MarkerRecs(result) ==
    LET parts == SplitOn(result, RecommendationsMarker)
        recommendations_text == IF Len(parts) > 1 THEN parts[2] ELSE <<>>
    IN  MarkerRecsOfLines(SplitChar(recommendations_text, "\n"))

MarkerSummary(result) ==
    Strip(RemoveAll(SplitOn(result, RecommendationsMarker)[1], SummaryMarker))

\* line.strip() and len(line.strip()) > 10
IsNonTrivial(line) == line # <<>> /\ Len(line) > 10

\* the recommendations parsed in the else branch, before [:4]
PlainRecs(result) ==
    LET lines == SplitChar(result, "\n")
    IN  SelectSeq(MapStrip(Tail(lines)), IsNonTrivial)

PlainSummary(result) == SplitChar(result, "\n")[1]

\* what generate_recommendations returns, or that it raised
generate_recommendations(outcome) ==
    LET exc == RaisedBy(outcome)
    IN  IF exc.class = "none"
        THEN LET result == outcome.content
             IN  IF Contains(result, SummaryMarker)
                 THEN [raised |-> FALSE,
                       summary |-> Prefix(MarkerSummary(result), SummaryLimit),
                       recommendations |->
                           Prefix(PadToFour(MarkerRecs(result), MarkerFiller), 4)]
                 ELSE [raised |-> FALSE,
                       summary |-> Prefix(PlainSummary(result), SummaryLimit),
                       recommendations |->
                           PadToFour(Prefix(PlainRecs(result), 4), PlainFiller)]
        ELSE IF Caught(exc)
        THEN [raised |-> FALSE,
              summary |-> ErrorPrefix \o exc.message,
              recommendations |-> FallbackRecommendations]
        ELSE [raised |-> TRUE, summary |-> <<>>, recommendations |-> <<>>]

\* client.chat.completions.create is called once, inside the try block
CreateCallsRetrying(outcome) == IF outcome.kind = "error" THEN 2 ELSE 1

CreateCalls(outcome) == 1

NoOutcome == [kind |-> "none"]

NoResult == [raised |-> FALSE, summary |-> <<>>, recommendations |-> <<>>]

RecIdle ==
    /\ service_outcome = NoOutcome
    /\ rec_result = NoResult
    /\ service_calls = 0
    /\ rec_invocations = 0

-----------------------------------------------------------------------------
(* email_to_filename                                                       *)

\* "_at_"
AtToken == <<"_", "a", "t", "_">>

\* "_Maturity_Assessment.pptx"
ReportSuffix ==
    <<"_", "M", "a", "t", "u", "r", "i", "t", "y", "_", "A", "s",
      "s", "e", "s", "s", "m", "e", "n", "t", ".", "p", "p", "t", "x">>

\* s.replace(ch, token) for one character ch
RECURSIVE ReplaceCharBy(_, _, _)
ReplaceCharBy(s, ch, token) ==
    IF s = <<>> THEN <<>>
    ELSE (IF Head(s) = ch THEN token ELSE <<Head(s)>>)
         \o ReplaceCharBy(Tail(s), ch, token)

email_to_filename(email) ==
    ReplaceCharBy(ReplaceCharBy(email, "@", AtToken), ".", <<"_">>) \o ReportSuffix

-----------------------------------------------------------------------------
(* The template document, find_text_boxes and map_slides_to_categories.   *)
(*                                                                         *)
(* A shape is a record: has_text and text (shape.text), is_placeholder,   *)
(* shape_type (9 a line, 1 an auto shape), left, top, width, height, and  *)
(* fill: "solid" (fill.type == 1), "other", or "raises" when the query of *)
(* the fill raises.                                                        *)

\* "Your score"
ScoreMarker ==
    <<"Y", "o", "u", "r", " ", "s", "c", "o", "r", "e">>

\* "Recommendation 1"
RecsMarker ==
    <<"R", "e", "c", "o", "m", "m", "e", "n", "d", "a", "t", "i",
      "o", "n", " ", "1">>

\* the keys of SLIDE_CATEGORY_MAPPING, each with its category
SlideTitles ==
    <<[title |->
          <<"T", "e", "c", "h", " ", "a", "n", "d", " ", "D", "a",
            "t", "a">>,
       category |-> "Tech & Data"],
      [title |->
          <<"C", "a", "m", "p", "a", "i", "g", "n", "i", "n", "g",
            " ", "&", " ", "A", "s", "s", "e", "t", "s">>,
       category |-> "Campaigning & Assets"],
      [title |->
          <<"S", "e", "g", "m", "e", "n", "t", "a", "t", "i", "o",
            "n", " ", "&", " ", "P", "e", "r", "s", "o", "n", "a",
            "l", "i", "s", "a", "t", "i", "o", "n">>,
       category |-> "Segmentation & Personalisation"],
      [title |->
          <<"R", "e", "p", "o", "r", "t", "i", "n", "g", " ", "&",
            " ", "I", "n", "s", "i", "g", "h", "t", "s">>,
       category |-> "Reporting & Insights"],
      [title |->
          <<"P", "e", "o", "p", "l", "e", " ", "&", " ", "O", "p",
            "e", "r", "a", "t", "i", "o", "n", "s">>,
       category |-> "People & Operations"]>>

TitleOf(category) ==
    SlideTitles[CHOOSE i \in 1..Len(SlideTitles) : SlideTitles[i].category = category].title

\* SLIDE_CATEGORY_MAPPING.get(title), "" when the title is no key
CategoryOfTitle(title) ==
    IF \E i \in 1..Len(SlideTitles) : SlideTitles[i].title = title
    THEN SlideTitles[CHOOSE i \in 1..Len(SlideTitles) : SlideTitles[i].title = title].category
    ELSE ""

\* the first placeholder of the slide whose stripped text is a key decides the
\* slide's category; "" when there is none
RECURSIVE SlideCategory(_)
SlideCategory(shapes) ==
    IF shapes = <<>> THEN ""
    ELSE IF Head(shapes).is_placeholder
            /\ CategoryOfTitle(Strip(Head(shapes).text)) # ""
         THEN CategoryOfTitle(Strip(Head(shapes).text))
         ELSE SlideCategory(Tail(shapes))

\* CATEGORY_TO_SLIDE: category -> 0-based slide index, the last slide of a
\* category winning
map_slides_to_categories(slides) ==
    LET found == {c \in Categories : \E i \in 1..Len(slides) : SlideCategory(slides[i]) = c}
    IN  [c \in found |->
            (CHOOSE i \in 1..Len(slides) :
                /\ SlideCategory(slides[i]) = c
                /\ \A j \in (i + 1)..Len(slides) : SlideCategory(slides[j]) # c) - 1]

\* the position of the first shape satisfying Test, 0 when there is none
FirstWhere(shapes, Test(_)) ==
    IF \E i \in 1..Len(shapes) : Test(shapes[i])
    THEN SetMin({i \in 1..Len(shapes) : Test(shapes[i])})
    ELSE 0

Abs(x) == IF x < 0 THEN -x ELSE x

\* abs(width - height) / max(width, height) < 0.2
NearSquare(shape) ==
    5 * Abs(shape.width - shape.height) < Max(shape.width, shape.height)

\* hasattr(shape, 'fill') and shape.fill.type == 1, a raise being swallowed
SolidFill(shape) == shape.fill = "solid"

\* the division of line 198 raises ZeroDivisionError
ClassificationRaises(shape) ==
    /\ shape.shape_type = 1
    /\ Max(shape.width, shape.height) = 0

\* the elements of a slide as positions in slide order, 0 for None
find_text_boxes(shapes) ==
    LET n == Len(shapes)
        HasScore(sh) == sh.has_text /\ Contains(Strip(sh.text), ScoreMarker)
        score == FirstWhere(shapes, HasScore)
        \* the elif is reached only by a shape that did not take the if branch
        recCandidates ==
            {i \in 1..n :
                /\ shapes[i].has_text
                /\ Contains(Strip(shapes[i].text), RecsMarker)
                /\ ~(HasScore(shapes[i]) /\ i = score)}
        recommendations == IF recCandidates = {} THEN 0 ELSE SetMin(recCandidates)
        lines == {i \in 1..n : shapes[i].shape_type = 9}
        circles ==
            {i \in 1..n :
                /\ shapes[i].shape_type = 1
                /\ NearSquare(shapes[i])
                /\ SolidFill(shapes[i])}
        \* max(lines, key=width): the first line of the greatest width
        line ==
            IF lines = {} THEN 0
            ELSE SetMin({i \in lines : \A j \in lines : shapes[j].width <= shapes[i].width})
        \* twice the distance of a circle's centre from the line's centre
        Off(i) == Abs((2 * shapes[i].top + shapes[i].height)
                      - (2 * shapes[line].top + shapes[line].height))
        orange_circle ==
            IF circles = {} THEN 0
            ELSE IF line # 0
                 THEN SetMin({i \in circles : \A j \in circles : Off(i) <= Off(j)})
                 ELSE SetMin(circles)
    IN  IF \E i \in 1..n : ClassificationRaises(shapes[i])
        THEN [raised |-> TRUE, score |-> 0, recommendations |-> 0,
              orange_circle |-> 0, line |-> 0]
        ELSE [raised |-> FALSE, score |-> score, recommendations |-> recommendations,
              orange_circle |-> orange_circle, line |-> line]

TextShape(text, placeholder) ==
    [has_text |-> TRUE, text |-> text, is_placeholder |-> placeholder,
     shape_type |-> IF placeholder THEN 14 ELSE 17,
     left |-> 0, top |-> 0, width |-> 300, height |-> 40, fill |-> "other"]

\* the reference line {left: 100, top: 50, width: 400, height: 10}
LineShape ==
    [has_text |-> FALSE, text |-> <<>>, is_placeholder |-> FALSE, shape_type |-> 9,
     left |-> 100, top |-> 50, width |-> 400, height |-> 10, fill |-> "other"]

\* the indicator, a 20 x 20 solid auto shape
CircleShape ==
    [has_text |-> TRUE, text |-> <<>>, is_placeholder |-> FALSE, shape_type |-> 1,
     left |-> 90, top |-> 45, width |-> 20, height |-> 20, fill |-> "solid"]

\* "Your score: "
ScoreLabelText ==
    <<"Y", "o", "u", "r", " ", "s", "c", "o", "r", "e", ":", " ">>

CategorySlide(category) ==
    <<TextShape(TitleOf(category), TRUE),
      TextShape(ScoreLabelText, FALSE),
      TextShape(RecsMarker, FALSE),
      LineShape,
      CircleShape>>

\* "Maturity"
CoverTitle == <<"M", "a", "t", "u", "r", "i", "t", "y">>

\* Presentation(TEMPLATE_PATH): a cover and one slide per category
TemplateSlides ==
    <<<<TextShape(CoverTitle, TRUE)>>>>
    \o [i \in 1..Len(CategoryOrder) |-> CategorySlide(CategoryOrder[i])]

-----------------------------------------------------------------------------
(* Replies of the text-generation service, as texts.                      *)

\* "1. Audit the data now": enumerated with a number
NumberedLine ==
    <<"1", ".", " ", "A", "u", "d", "i", "t", " ", "t", "h", "e",
      " ", "d", "a", "t", "a", " ", "n", "o", "w">>

\* "- Map every segment": enumerated with a dash
DashLine ==
    <<"-", " ", "M", "a", "p", " ", "e", "v", "e", "r", "y", " ",
      "s", "e", "g", "m", "e", "n", "t">>

\* "Train the whole team": not enumerated, more than 10 characters
PlainLine ==
    <<"T", "r", "a", "i", "n", " ", "t", "h", "e", " ", "w", "h",
      "o", "l", "e", " ", "t", "e", "a", "m">>

\* "Guess": not enumerated, at most 10 characters
ShortLine == <<"G", "u", "e", "s", "s">>

LinePool == {NumberedLine, DashLine, PlainLine, ShortLine}

RECURSIVE LineListsUpTo(_)
LineListsUpTo(n) ==
    IF n = 0 THEN {<<>>}
    ELSE LET shorter == LineListsUpTo(n - 1)
         IN  shorter \cup {Append(ls, l) : ls \in shorter, l \in LinePool}

\* "\n".join(lines), each line ended by a newline
RECURSIVE JoinLines(_)
JoinLines(lines) ==
    IF lines = <<>> THEN <<>>
    ELSE Head(lines) \o <<"\n">> \o JoinLines(Tail(lines))

\* a text of n characters
Text(n) == [i \in 1..n |-> "x"]

\* the lengths of summary text around the limit of 200
SummaryLengths == {0, 3, SummaryLimit - 1, SummaryLimit, SummaryLimit + 1}

\* a reply: a first line, marked "SUMMARY: " or not, an optional
\* "RECOMMENDATIONS:" line, and the lines after it
Reply(marked, summaryLen, recMarked, lines) ==
    (IF marked THEN SummaryMarker \o <<" ">> ELSE <<>>)
    \o Text(summaryLen) \o <<"\n">>
    \o (IF recMarked THEN RecommendationsMarker \o <<"\n">> ELSE <<>>)
    \o JoinLines(lines)

\* six enumerated lines
SixLines ==
    <<NumberedLine, DashLine, NumberedLine, DashLine, NumberedLine, DashLine>>

-----------------------------------------------------------------------------
(* generate_client_presentation: what it writes into a category's slide.  *)

\* "/4.0"
OutOfFour == <<"/", "4", ".", "0">>

\* ". "
DotSpace == <<".", " ">>

RECURSIVE NatStr(_)
NatStr(n) == IF n < 10 THEN <<DigitSeq[n + 1]>>
             ELSE NatStr(n \div 10) \o <<DigitSeq[(n % 10) + 1]>>

\* the mean sum/(10 n) in hundredths, rounded to nearest; a mean exactly half
\* way between two hundredths is rounded to even here, where Python rounds the
\* binary value of the float
Hundredths(score) ==
    LET num == 10 * score.sum
        q == num \div score.n
        r == num % score.n
    IN  IF 2 * r < score.n THEN q
        ELSE IF 2 * r > score.n THEN q + 1
        ELSE IF q % 2 = 0 THEN q ELSE q + 1

\* f"{score:.2f}"
FormatScore(score) ==
    IF score.kind = "nan" THEN <<"n", "a", "n">>
    ELSE LET h == Hundredths(score)
         IN  NatStr(h \div 100) \o <<".">>
             \o <<DigitSeq[((h \div 10) % 10) + 1], DigitSeq[(h % 10) + 1]>>

\* the paragraphs "1. ...", "2. ...", as shape.text reads them back
RECURSIVE NumberedParagraphs(_, _)
NumberedParagraphs(recommendations, i) ==
    IF i > Len(recommendations) THEN <<>>
    ELSE NatStr(i) \o DotSpace \o recommendations[i]
         \o (IF i < Len(recommendations) THEN <<"\n">> ELSE <<>>)
         \o NumberedParagraphs(recommendations, i + 1)

\* int(a / b) for b > 0: the quotient cut towards zero
TruncDiv(a, b) == IF a >= 0 THEN a \div b ELSE -((-a) \div b)

\* the left edge put on the target point, the indicator's width left out
IndicatorLeftEdge(line, circle, score) ==
    TruncDiv(40 * score.n * line.left + line.width * score.sum, 40 * score.n)

\* int(line_left + line_width * score / 4.0 - circle_width / 2)
IndicatorLeft(line, circle, score) ==
    TruncDiv(40 * score.n * line.left + line.width * score.sum
             - 20 * score.n * circle.width,
             40 * score.n)

\* int(line_top + line_height / 2 - circle_height / 2)
IndicatorTop(line, circle) == TruncDiv(2 * line.top + line.height - circle.height, 2)

\* the slide after lines 560-618, `elements` being what find_text_boxes found
UpdatedSlide(shapes, elements, score, recommendations) ==
    [i \in 1..Len(shapes) |->
        IF i = elements.score
        THEN [shapes[i] EXCEPT !.text = FormatScore(score) \o OutOfFour]
        ELSE IF i = elements.recommendations
        THEN [shapes[i] EXCEPT !.text = NumberedParagraphs(recommendations, 1)]
        ELSE IF i = elements.orange_circle /\ elements.line # 0 /\ score.kind = "num"
        THEN [shapes[i] EXCEPT
                 !.left = IndicatorLeft(shapes[elements.line], shapes[i], score),
                 !.top = IndicatorTop(shapes[elements.line], shapes[i])]
        ELSE shapes[i]]

\* the mutations of the slide: one per element written
MutationsOf(elements) ==
    (IF elements.score # 0 THEN 1 ELSE 0)
    + (IF elements.recommendations # 0 THEN 1 ELSE 0)
    + (IF elements.orange_circle # 0 /\ elements.line # 0 THEN 1 ELSE 0)

\* score is None
IsNone(score) == score.kind = "none"

\* pd.isna(score) or score is None
IsAbsent(score) == score.kind = "nan" \/ score.kind = "none"

-----------------------------------------------------------------------------
(* main                                                                    *)

\* pd.DataFrame(category_scores_list): a column holding a number is a float
\* column, where None reads back as NaN; a column of None only keeps None
ScoresFrame(scores_list) ==
    [i \in 1..Len(scores_list) |->
        [c \in Categories |->
            IF scores_list[i][c].kind = "none"
               /\ \E j \in 1..Len(scores_list) : scores_list[j][c].kind = "num"
            THEN NaNValue
            ELSE scores_list[i][c]]]

\* os.path.exists(output_filename)
OutputExists(filename, directory) == filename \in directory

\* where main goes after `continue` on an existing file
AfterSkipFallsThrough == "load"

AfterSkip == "turn_end"

\* where main goes when generate_client_presentation raised: the except
\* clause of line 689, not the fatal handler of line 743
AfterGenerationErrorFatal == "fatal"

AfterGenerationError == "turn_end"

NoPrs == <<>>

ZeroTurn == [gen_calls |-> 0, loads |-> 0, resolutions |-> 0, service_calls |-> 0,
             mutations |-> 0, saves |-> 0]

NoCatLog == [c \in Categories |->
                [state |-> "pending", resolutions |-> 0, service_calls |-> 0]]

MainIdle ==
    /\ mainPc = "idle"
    /\ sheet = [columns |-> <<>>, rows |-> <<>>]
    /\ initial_files = {}
    /\ files = {}
    /\ scores_df = <<>>
    /\ idx = 0
    /\ dispositions = <<>>
    /\ generated_files = <<>>
    /\ skipped_files = <<>>
    /\ prs = NoPrs
    /\ CATEGORY_TO_SLIDE = <<>>
    /\ cat_pos = 0
    /\ turn = ZeroTurn
    /\ cat_log = NoCatLog

\* main before load_data, the sheet holding `data` and the output directory
\* the files `directory`
MainStart(data, directory) ==
    /\ mainPc = "start"
    /\ sheet = data
    /\ initial_files = directory
    /\ files = directory
    /\ scores_df = <<>>
    /\ idx = 0
    /\ dispositions = <<>>
    /\ generated_files = <<>>
    /\ skipped_files = <<>>
    /\ prs = NoPrs
    /\ CATEGORY_TO_SLIDE = <<>>
    /\ cat_pos = 0
    /\ turn = ZeroTurn
    /\ cat_log = NoCatLog

EmailOf(i) == sheet.rows[i][EmailCol].text

\* load_data returns the frame, or raises and main takes the fatal exit
LoadData ==
    /\ mainPc = "start"
    /\ \/ /\ mainPc' = "loaded"
          /\ mapPc' = "loaded"
          /\ columns' = sheet.columns
       \/ /\ mainPc' = "fatal"
          /\ UNCHANGED <<mapPc, columns>>
    /\ UNCHANGED <<COLUMN_NAME_MAPPING, CLEANED_TO_ORIGINAL_COL, QUESTION_CATEGORIES,
                   QUESTION_TO_CATEGORY, question_columns>>
    /\ UNCHANGED <<sheet, initial_files, files, scores_df, idx, dispositions,
                   generated_files, skipped_files, prs, CATEGORY_TO_SLIDE, cat_pos,
                   turn, cat_log>>
    /\ UNCHANGED outsideMain

\* lines 640-660: the mappings, then the scores of every row
PrepareScores ==
    /\ mainPc = "loaded"
    /\ setup_mappings
    /\ scores_df' =
          ScoresFrame([i \in 1..Len(sheet.rows) |->
              calculate_category_scores(sheet.rows[i], QUESTION_CATEGORIES',
                                        CLEANED_TO_ORIGINAL_COL')])
    /\ idx' = IF sheet.rows = <<>> THEN 0 ELSE 1
    /\ mainPc' = IF sheet.rows = <<>> THEN "done" ELSE "check"
    /\ UNCHANGED <<sheet, initial_files, files, dispositions, generated_files,
                   skipped_files, prs, CATEGORY_TO_SLIDE, cat_pos, turn, cat_log>>
    /\ UNCHANGED outsideMain

\* lines 671-680: skip the respondent whose file exists, else enter
\* generate_client_presentation
CheckExisting ==
    /\ mainPc = "check"
    /\ LET filename == email_to_filename(EmailOf(idx))
       IN  IF OutputExists(filename, files)
           THEN /\ skipped_files' = Append(skipped_files, filename)
                /\ dispositions' = Append(dispositions, "skipped")
                /\ mainPc' = AfterSkip
                /\ UNCHANGED turn
           ELSE /\ mainPc' = "load"
                /\ turn' = [turn EXCEPT !.gen_calls = @ + 1]
                /\ UNCHANGED <<skipped_files, dispositions>>
    /\ UNCHANGED <<sheet, initial_files, files, scores_df, idx, generated_files, prs,
                   CATEGORY_TO_SLIDE, cat_pos, cat_log>>
    /\ UNCHANGED mapVars
    /\ UNCHANGED outsideMain

\* an exception leaves generate_client_presentation
GenerationRaises ==
    /\ mainPc' = AfterGenerationError
    /\ dispositions' =
          IF Len(dispositions) < idx THEN Append(dispositions, "failed") ELSE dispositions
    /\ prs' = NoPrs
    /\ UNCHANGED <<files, generated_files>>

\* lines 524-525: the template is loaded afresh and its slides are mapped
LoadTemplate ==
    /\ mainPc = "load"
    /\ \/ /\ prs' = TemplateSlides
          /\ CATEGORY_TO_SLIDE' = map_slides_to_categories(TemplateSlides)
          /\ cat_pos' = 1
          /\ mainPc' = "category"
          /\ UNCHANGED <<dispositions, files, generated_files>>
       \/ /\ GenerationRaises
          /\ UNCHANGED <<CATEGORY_TO_SLIDE, cat_pos>>
    /\ turn' = [turn EXCEPT !.loads = @ + 1]
    /\ UNCHANGED <<sheet, initial_files, scores_df, idx, skipped_files, cat_log>>
    /\ UNCHANGED mapVars
    /\ UNCHANGED outsideMain

\* the replies of the service drawn in main: a marked reply of six lines, a
\* timeout
MainOutcomes ==
    {[kind |-> "reply", content |-> Reply(TRUE, 3, TRUE, SixLines)],
     [kind |-> "error", class |-> "APITimeoutError", message |-> Text(5)]}

\* lines 534-618 for the category at cat_pos
ProcessCategory ==
    /\ mainPc = "category"
    /\ LET category == CategoryOrder[cat_pos]
           score == scores_df[idx][category]
           next == IF cat_pos = Len(CategoryOrder) THEN "save" ELSE "category"
       IN  IF category \notin DOMAIN CATEGORY_TO_SLIDE \/ IsAbsent(score)
           THEN /\ cat_log' = [cat_log EXCEPT ![category].state = "skipped"]
                /\ cat_pos' = cat_pos + 1
                /\ mainPc' = next
                /\ UNCHANGED <<prs, turn, dispositions, files, generated_files>>
           ELSE LET slide_idx == CATEGORY_TO_SLIDE[category] + 1
                    elements == find_text_boxes(prs[slide_idx])
                IN  IF elements.raised
                    THEN /\ GenerationRaises
                         /\ turn' = [turn EXCEPT !.resolutions = @ + 1]
                         /\ cat_log' = [cat_log EXCEPT ![category].resolutions = @ + 1]
                         /\ UNCHANGED cat_pos
                    ELSE \E outcome \in MainOutcomes, pptx_raises \in BOOLEAN :
                         LET result == generate_recommendations(outcome)
                         IN  /\ cat_log' = [cat_log EXCEPT
                                   ![category].resolutions = @ + 1,
                                   ![category].service_calls = @ + CreateCalls(outcome),
                                   ![category].state =
                                       IF result.raised \/ pptx_raises
                                       THEN "raised" ELSE "processed"]
                             /\ IF result.raised \/ pptx_raises
                                THEN /\ GenerationRaises
                                     /\ turn' = [turn EXCEPT
                                           !.resolutions = @ + 1,
                                           !.service_calls = @ + CreateCalls(outcome)]
                                     /\ UNCHANGED cat_pos
                                ELSE /\ prs' = [prs EXCEPT ![slide_idx] =
                                           UpdatedSlide(prs[slide_idx], elements, score,
                                                        result.recommendations)]
                                     /\ turn' = [turn EXCEPT
                                           !.resolutions = @ + 1,
                                           !.service_calls = @ + CreateCalls(outcome),
                                           !.mutations = @ + MutationsOf(elements)]
                                     /\ cat_pos' = cat_pos + 1
                                     /\ mainPc' = next
                                     /\ UNCHANGED <<dispositions, files, generated_files>>
    /\ UNCHANGED <<sheet, initial_files, scores_df, idx, skipped_files,
                   CATEGORY_TO_SLIDE>>
    /\ UNCHANGED mapVars
    /\ UNCHANGED outsideMain

\* line 620 and lines 687-688: the document is saved and counted, or the
\* save raises
SavePresentation ==
    /\ mainPc = "save"
    /\ \/ /\ files' = files \cup {email_to_filename(EmailOf(idx))}
          /\ generated_files' = Append(generated_files, email_to_filename(EmailOf(idx)))
          /\ dispositions' = Append(dispositions, "generated")
          /\ mainPc' = "turn_end"
          /\ prs' = NoPrs
       \/ GenerationRaises
    /\ turn' = [turn EXCEPT !.saves = @ + 1]
    /\ UNCHANGED <<sheet, initial_files, scores_df, idx, skipped_files,
                   CATEGORY_TO_SLIDE, cat_pos, cat_log>>
    /\ UNCHANGED mapVars
    /\ UNCHANGED outsideMain

\* the for statement of line 662 takes the next row, or the loop ends
NextRespondent ==
    /\ mainPc = "turn_end"
    /\ idx' = IF idx < Len(scores_df) THEN idx + 1 ELSE idx
    /\ mainPc' = IF idx < Len(scores_df) THEN "check" ELSE "done"
    /\ turn' = ZeroTurn
    /\ cat_log' = NoCatLog
    /\ cat_pos' = 0
    /\ UNCHANGED <<sheet, initial_files, files, scores_df, dispositions,
                   generated_files, skipped_files, prs, CATEGORY_TO_SLIDE>>
    /\ UNCHANGED mapVars
    /\ UNCHANGED outsideMain

-----------------------------------------------------------------------------
(* Specification SpecNorm: a raw label is normalised, and the result is   *)
(* normalised again.                                                       *)

MaxLabelLen == 3

\* one character of each class the cleaner tells apart
LabelAlphabet == {"A", "b", "7", " ", "-", "_", "!"}

RECURSIVE StringsUpTo(_, _)
StringsUpTo(alphabet, n) ==
    IF n = 0 THEN {<<>>}
    ELSE LET shorter == StringsUpTo(alphabet, n - 1)
         IN  shorter \cup {Append(s, c) : s \in shorter, c \in alphabet}

NormIdle ==
    /\ normPc = "idle"
    /\ col_name = <<>>
    /\ cleaned = <<>>
    /\ recleaned = <<>>

NormStart ==
    /\ normPc = "raw"
    /\ col_name \in StringsUpTo(LabelAlphabet, MaxLabelLen)
    /\ cleaned = <<>>
    /\ recleaned = <<>>

CleanLabel ==
    /\ normPc = "raw"
    /\ cleaned' = clean_column_name(col_name)
    /\ normPc' = "once"
    /\ UNCHANGED <<col_name, recleaned>>
    /\ UNCHANGED outsideNorm

CleanAgain ==
    /\ normPc = "once"
    /\ recleaned' = clean_column_name(cleaned)
    /\ normPc' = "twice"
    /\ UNCHANGED <<col_name, cleaned>>
    /\ UNCHANGED outsideNorm

NormInit ==
    NormStart /\ MapIdle /\ ScoreIdle /\ RecIdle /\ MainIdle /\ PromptIdle /\ SlideIdle

NormNext == CleanLabel \/ CleanAgain

SpecNorm == NormInit /\ [][NormNext]_vars

\* C1: clean_column_name is idempotent: cleaning an already cleaned label
\* gives the same label back.
C1_Idempotent == normPc = "twice" => recleaned = cleaned

-----------------------------------------------------------------------------
(* Specification SpecMap: setup_mappings on datasets of 0..MaxQuestions    *)
(* question columns, in which at most one column's label normalises to    *)
(* the key of an earlier column.                                           *)

MaxQuestions == 25

DecimalStr(n) ==
    IF n < 10 THEN <<DigitSeq[n + 1]>>
    ELSE <<DigitSeq[(n \div 10) + 1], DigitSeq[(n % 10) + 1]>>

\* "Q-7": the label of the i-th question, key "q_7"
QuestionLabel(i) == <<"Q", "-">> \o DecimalStr(i)

\* "q 7?": another label of key "q_7"
CollidingLabel(i) == <<"q", " ">> \o DecimalStr(i) \o <<"?">>

\* n question columns after the two metadata columns; with 0 < i < j the j-th
\* label collides with the i-th
DatasetColumns(n, i, j) ==
    <<TimestampCol, EmailCol>> \o
    [k \in 1..n |-> IF k = j /\ i > 0 THEN CollidingLabel(i) ELSE QuestionLabel(k)]

MapInit ==
    /\ NormIdle
    /\ MainIdle
    /\ ScoreIdle
    /\ RecIdle
    /\ PromptIdle
    /\ SlideIdle
    /\ \E n \in 0..MaxQuestions :
       \E i \in 0..n, j \in 0..n :
          /\ (i = 0 /\ j = 0) \/ (0 < i /\ i < j)
          /\ MapLoaded(DatasetColumns(n, i, j))

MapSetup == setup_mappings /\ UNCHANGED outsideMap

MapNext == MapSetup

SpecMap == MapInit /\ [][MapNext]_vars

CleanedQuestions == CleanedQuestionsOf(COLUMN_NAME_MAPPING, question_columns)

CategoriesHolding(k) == {c \in Categories : k \in Range(QUESTION_CATEGORIES[c])}

\* C6 as stated: after setup_mappings every normalised question key lies in
\* the slice of exactly one category, whatever the columns are.
C6_ExactlyOneCategoryAlways ==
    mapPc = "mapped" =>
        \A k \in Range(CleanedQuestions) : Cardinality(CategoriesHolding(k)) = 1

KeysDistinct == Cardinality(Range(CleanedQuestions)) = Len(question_columns)

\* C6 amended: when the dataset has at most 24 question columns and their
\* labels normalise to pairwise distinct keys, every key lies in the slice of
\* exactly one category, and QUESTION_TO_CATEGORY names that category.
C6_ExactlyOneCategory ==
    (mapPc = "mapped" /\ Len(question_columns) <= 24 /\ KeysDistinct) =>
        \A k \in Range(CleanedQuestions) :
            /\ Cardinality(CategoriesHolding(k)) = 1
            /\ k \in DOMAIN QUESTION_TO_CATEGORY
            /\ CategoriesHolding(k) = {QUESTION_TO_CATEGORY[k]}

C6_Witness ==
    /\ mapPc = "mapped"
    /\ Len(question_columns) = 24
    /\ KeysDistinct
    /\ \A c \in Categories : QUESTION_CATEGORIES[c] # <<>>

-----------------------------------------------------------------------------
(* Specification SpecScore: a dataset of six questions (five of the first *)
(* category, one of the second, none of the others), whose second label   *)
(* may collide with the first, and a respondent row in which at most      *)
(* MaxAnswered cells are not blank (NaN).                                  *)

MaxAnswered == 3

\* what a non-blank cell can hold: 0.5, 1, 4, 4.5, " 2.5 ", "bad", None
CellValues ==
    {Num(5), Num(10), Num(40), Num(45),
     Str(<<" ", "2", ".", "5", " ">>), Str(<<"b", "a", "d">>), NoneValue}

ScoreDatasets == {DatasetColumns(6, 0, 0), DatasetColumns(6, 1, 2)}

\* the rows over `cols` with the cells at positions `answered` drawn from
\* CellValues and every other question cell blank
RowsOver(cols, answered) ==
    {[c \in Range(cols) |->
         IF c \in MetadataCols THEN Str(<<"x">>)
         ELSE IF c \in DOMAIN cells THEN cells[c] ELSE NaNValue] :
     cells \in [answered -> CellValues]}

ScoreInit ==
    /\ NormIdle
    /\ MainIdle
    /\ RecIdle
    /\ PromptIdle
    /\ SlideIdle
    /\ \E cols \in ScoreDatasets :
          /\ MapLoaded(cols)
          /\ \E answered \in SUBSET Range(QuestionColumnsOf(cols)) :
                /\ Cardinality(answered) <= MaxAnswered
                /\ client_row \in RowsOver(cols, answered)
    /\ scores = <<>>

ScoreSetup ==
    /\ setup_mappings
    /\ UNCHANGED scoreVars
    /\ UNCHANGED outsideScore

CalculateScores ==
    /\ mapPc = "mapped"
    /\ scores' = calculate_category_scores(client_row, QUESTION_CATEGORIES,
                                           CLEANED_TO_ORIGINAL_COL)
    /\ mapPc' = "scored"
    /\ UNCHANGED <<columns, COLUMN_NAME_MAPPING, CLEANED_TO_ORIGINAL_COL,
                   QUESTION_CATEGORIES, QUESTION_TO_CATEGORY, question_columns,
                   client_row>>
    /\ UNCHANGED outsideScore

ScoreNext == ScoreSetup \/ CalculateScores

SpecScore == ScoreInit /\ [][ScoreNext]_vars

\* the responses of a category: the cell of each of its question keys, in
\* question order
ResponsesOf(c) ==
    [i \in 1..Len(QUESTION_CATEGORIES[c]) |->
        client_row[CLEANED_TO_ORIGINAL_COL[QUESTION_CATEGORIES[c][i]]]]

\* the number a response coerces to, in tenths, or -1 when it coerces to none
CoercedTenths(v) ==
    IF v.kind \in {"num", "str"} /\ ToFloat(v).kind = "num"
    THEN ToFloat(v).tenths ELSE -1

ValidPositions(resp) ==
    {i \in 1..Len(resp) : CoercedTenths(resp[i]) >= 10 /\ CoercedTenths(resp[i]) <= 40}

RECURSIVE SumOver(_, _)
SumOver(resp, positions) ==
    IF positions = {} THEN 0
    ELSE LET i == CHOOSE x \in positions : TRUE
         IN  CoercedTenths(resp[i]) + SumOver(resp, positions \ {i})

\* C5: each category's score is the mean of exactly the responses that coerce
\* to a number in [1,4]; it is None iff there is no such response, and a
\* present score lies in [1,4].
C5_ScoreIsMeanOfValid ==
    mapPc = "scored" =>
        \A c \in Categories :
            LET resp == ResponsesOf(c)
                valid == ValidPositions(resp)
            IN  /\ (scores[c] = NoneValue) <=> (valid = {})
                /\ valid # {} =>
                      /\ scores[c].kind = "num"
                      /\ scores[c].n = Cardinality(valid)
                      /\ scores[c].sum = SumOver(resp, valid)
                      /\ 10 * scores[c].n <= scores[c].sum
                      /\ scores[c].sum <= 40 * scores[c].n

\* a row with an answer on the boundary, one out of range and a non-numeric
\* one in a category has been scored, and another category has no score
C5_Witness ==
    /\ mapPc = "scored"
    /\ \E c \in Categories :
          /\ scores[c] = [kind |-> "num", sum |-> 40, n |-> 1]
          /\ \E i, j, k \in 1..Len(ResponsesOf(c)) :
                /\ ResponsesOf(c)[i] = Num(40)
                /\ ResponsesOf(c)[j] = Num(45)
                /\ ResponsesOf(c)[k] = Str(<<"b", "a", "d">>)
    /\ \E c \in Categories : scores[c] = NoneValue

-----------------------------------------------------------------------------
(* Specification SpecRec: generate_recommendations against every outcome  *)
(* of the service in ServiceOutcomes, at most MaxInvocations times.        *)

MaxLines == 5

MaxInvocations == 2

\* "- Map every segment.": a dash item that is a sentence ending in a period
DashSentence ==
    <<"-", " ", "M", "a", "p", " ", "e", "v", "e", "r", "y", " ",
      "s", "e", "g", "m", "e", "n", "t", ".">>

\* "1) Audit the data": enumerated with a number and a parenthesis
ParenLine ==
    <<"1", ")", " ", "A", "u", "d", "i", "t", " ", "t", "h", "e",
      " ", "d", "a", "t", "a">>

\* "- Use v2.0 now": a dash item with a period inside
VersionLine ==
    <<"-", " ", "U", "s", "e", " ", "v", "2", ".", "0", " ", "n",
      "o", "w">>

PunctuatedLines == {DashSentence, ParenLine, VersionLine}

\* replies of every summary length with no line or six, replies of a short
\* summary with every list of at most MaxLines lines, and replies whose
\* second line is one of PunctuatedLines
Replies ==
    {Reply(m, n, r, ls) :
        m \in BOOLEAN, n \in SummaryLengths, r \in BOOLEAN, ls \in {<<>>, SixLines}}
    \cup
    {Reply(m, 3, r, ls) : m \in BOOLEAN, r \in BOOLEAN, ls \in LineListsUpTo(MaxLines)}
    \cup
    {Reply(m, 3, TRUE, <<NumberedLine, l>>) : m \in BOOLEAN, l \in PunctuatedLines}
    \cup {<<>>}

\* the lengths of failure messages: "Error: " takes 7 of the 200 characters
MessageLengths == {0, 5, SummaryLimit - 7, SummaryLimit - 6}

ServiceOutcomes ==
    {[kind |-> "reply", content |-> r] : r \in Replies}
    \cup {[kind |-> "no_content"], [kind |-> "no_choices"]}
    \cup {[kind |-> "error", class |-> c, message |-> Text(n)] :
            c \in {"APITimeoutError", "APIConnectionError", "APIStatusError"},
            n \in MessageLengths}

RecInit ==
    /\ NormIdle
    /\ MainIdle
    /\ MapIdle
    /\ ScoreIdle
    /\ RecIdle
    /\ PromptIdle
    /\ SlideIdle

\* one call of generate_recommendations, the service answering `outcome`
GenerateRecommendations(outcome) ==
    /\ service_outcome' = outcome
    /\ rec_result' = generate_recommendations(outcome)
    /\ service_calls' = service_calls + CreateCalls(outcome)
    /\ rec_invocations' = rec_invocations + 1

RecCall ==
    /\ rec_invocations < MaxInvocations
    /\ service_outcome = NoOutcome
    /\ \E outcome \in ServiceOutcomes : GenerateRecommendations(outcome)
    /\ UNCHANGED outsideRec

\* the caller has used the returned pair; its next category starts afresh
RecTaken ==
    /\ service_outcome # NoOutcome
    /\ service_outcome' = NoOutcome
    /\ rec_result' = NoResult
    /\ UNCHANGED <<service_calls, rec_invocations>>
    /\ UNCHANGED outsideRec

RecNext == RecCall \/ RecTaken

SpecRec == RecInit /\ [][RecNext]_vars

\* generate_recommendations has just returned
Returned == service_outcome # NoOutcome /\ ~rec_result.raised

\* the list parsed from the last reply, before padding and truncation
ParsedRecs ==
    IF Contains(service_outcome.content, SummaryMarker)
    THEN MarkerRecs(service_outcome.content)
    ELSE PlainRecs(service_outcome.content)

FillerOfReply ==
    IF Contains(service_outcome.content, SummaryMarker)
    THEN MarkerFiller ELSE PlainFiller

\* C2: every return carries exactly 4 recommendations; for a reply they are
\* the first 4 parsed ones, and when fewer than 4 were parsed the parsed ones
\* followed by the branch's filler string.
C2_ExactlyFour ==
    service_outcome # NoOutcome =>
        /\ ~rec_result.raised
        /\ Len(rec_result.recommendations) = 4
        /\ service_outcome.kind = "reply" =>
              LET n == Min(Len(ParsedRecs), 4)
              IN  /\ SubSeq(rec_result.recommendations, 1, n) = SubSeq(ParsedRecs, 1, n)
                  /\ \A i \in (n + 1)..4 :
                        rec_result.recommendations[i] = FillerOfReply

\* a reply without markers and with three non-trivial lines has been parsed
\* and padded with one filler
C2_Witness ==
    /\ Returned
    /\ service_outcome.kind = "reply"
    /\ ~Contains(service_outcome.content, SummaryMarker)
    /\ Len(ParsedRecs) = 3
    /\ rec_result.recommendations[4] = PlainFiller

\* C3: the summary returned is at most 200 characters long on every path.
C3_SummaryAtMost200 ==
    service_outcome # NoOutcome => Len(rec_result.summary) <= 200

\* C4: when the call fails or the reply object is unusable the function
\* returns, without raising, the fixed fallback list and the summary
\* "Error: " followed by the failure's message, having called the service once
\* (every call of the function calls the service exactly once).
C4_FailureFallsBack ==
    /\ service_calls = rec_invocations
    /\ service_outcome.kind \notin {"none", "reply"} =>
          /\ ~rec_result.raised
          /\ rec_result.recommendations = FallbackRecommendations
          /\ rec_result.summary = ErrorPrefix \o RaisedBy(service_outcome).message

C4_Witness ==
    /\ rec_invocations = 2
    /\ service_calls = 2
    /\ service_outcome.kind = "no_content"
    /\ rec_result.recommendations = FallbackRecommendations
    /\ rec_result.summary = ErrorPrefix \o NoneContentMessage

-----------------------------------------------------------------------------
(* Specification SpecMain: main on a sheet of six questions and at most   *)
(* MaxRespondents rows drawn from RespondentPool, the output directory    *)
(* empty or holding one report already.                                    *)

MaxRespondents == 3

MainColumns == DatasetColumns(6, 0, 0)

\* "a.b@x.io"
EmailDot == <<"a", ".", "b", "@", "x", ".", "i", "o">>

\* "a_b@x.io"
EmailUnderscore == <<"a", "_", "b", "@", "x", ".", "i", "o">>

\* "z@x.io"
EmailZ == <<"z", "@", "x", ".", "i", "o">>

\* a row of the sheet: the identity, and the cells of the questions in order
SheetRow(email, cells) ==
    [c \in Range(MainColumns) |->
        IF c = EmailCol THEN Str(email)
        ELSE IF c = TimestampCol THEN Str(<<"t">>)
        ELSE cells[CHOOSE k \in 1..6 : QuestionLabel(k) = c]]

\* the first category answered, the second blank
CellsFirstOnly == <<Num(30), Num(30), Num(20), Num(30), Num(30), NaNValue>>

\* both non-empty categories answered
CellsBoth == <<Num(20), NaNValue, NaNValue, Str(<<"b", "a", "d">>), NaNValue, Num(40)>>

\* nothing answered
CellsBlank == <<NaNValue, NaNValue, NaNValue, NaNValue, NaNValue, NaNValue>>

RespondentPool ==
    {SheetRow(EmailDot, CellsFirstOnly),
     SheetRow(EmailUnderscore, CellsBoth),
     SheetRow(EmailZ, CellsBlank),
     SheetRow(EmailZ, CellsBoth)}

RECURSIVE RowListsUpTo(_)
RowListsUpTo(n) ==
    IF n = 0 THEN {<<>>}
    ELSE LET shorter == RowListsUpTo(n - 1)
         IN  shorter \cup {Append(rs, r) : rs \in shorter, r \in RespondentPool}

MainInit ==
    /\ NormIdle
    /\ MapIdle
    /\ ScoreIdle
    /\ RecIdle
    /\ PromptIdle
    /\ SlideIdle
    /\ \E rows \in RowListsUpTo(MaxRespondents) :
       \E directory \in {{}, {email_to_filename(EmailZ)}} :
          MainStart([columns |-> MainColumns, rows |-> rows], directory)

MainNext ==
    \/ LoadData
    \/ PrepareScores
    \/ CheckExisting
    \/ LoadTemplate
    \/ ProcessCategory
    \/ SavePresentation
    \/ NextRespondent

SpecMain == MainInit /\ [][MainNext]_vars

\* the turn of the respondent at idx ended with a skip
SkippedNow == idx \in DOMAIN dispositions /\ dispositions[idx] = "skipped"

\* C7: from the check that finds a respondent's file until the next
\* respondent, generate_client_presentation is not called, no template is
\* loaded, no shape is resolved, no slide is mutated, nothing is saved and
\* the service is not called.
C7_SkippedDoesNothing ==
    SkippedNow =>
        /\ turn = ZeroTurn
        /\ prs = NoPrs
        /\ cat_log = NoCatLog
        /\ mainPc \in {"turn_end", "check", "done"}

C7_Witness ==
    /\ SkippedNow
    /\ mainPc = "turn_end"
    /\ idx = 2
    /\ dispositions[1] = "generated"

EmailsUnique ==
    \A i, j \in 1..Len(sheet.rows) : EmailOf(i) = EmailOf(j) => i = j

Count(seq, x) == Cardinality({i \in 1..Len(seq) : seq[i] = x})

\* C9: an exception raised while a respondent's document is generated does
\* not end the run: main is never at the fatal exit once a respondent was
\* reached, the loop goes on to the next respondent, at the end every
\* respondent has had a turn, and only saved documents count as generated.
C9_FailureDoesNotStopRun ==
    /\ (mainPc = "fatal" => dispositions = <<>> /\ idx = 0)
    /\ Len(generated_files) = Count(dispositions, "generated")
    /\ (mainPc = "done" => Len(dispositions) = Len(sheet.rows))
    /\ (mainPc = "turn_end" => Len(dispositions) = idx)
    /\ (mainPc \in {"check", "load", "category", "save"} => Len(dispositions) = idx - 1)
    /\ \A i \in 1..Len(dispositions) :
          dispositions[i] = "failed" => mainPc \in {"turn_end", "done"} \/ idx > i

C9_Witness ==
    /\ mainPc = "done"
    /\ Len(dispositions) = 2
    /\ dispositions[1] = "failed"
    /\ dispositions[2] = "generated"
    /\ Len(generated_files) = 1

SlideOf(category) == CATEGORY_TO_SLIDE[category] + 1

\* C10: when the category loop is over, a category whose score is None or NaN
\* has had no shape resolution and no service call and its slide is as the
\* template has it, and every other category of the respondent that has a
\* slide has been processed.
C10_AbsentScoreSkipped ==
    mainPc = "save" =>
        \A c \in Categories :
            IF scores_df[idx][c] \in {NoneValue, NaNValue}
            THEN /\ cat_log[c] = [state |-> "skipped", resolutions |-> 0,
                                  service_calls |-> 0]
                 /\ c \in DOMAIN CATEGORY_TO_SLIDE =>
                       prs[SlideOf(c)] = TemplateSlides[SlideOf(c)]
            ELSE c \in DOMAIN CATEGORY_TO_SLIDE =>
                    /\ cat_log[c] = [state |-> "processed", resolutions |-> 1,
                                     service_calls |-> 1]
                    /\ prs[SlideOf(c)] # TemplateSlides[SlideOf(c)]

\* a respondent with a scored category, a NaN category and a None category has
\* been through the category loop
C10_Witness ==
    /\ mainPc = "save"
    /\ cat_log["Tech & Data"].state = "processed"
    /\ scores_df[idx]["Campaigning & Assets"] = NaNValue
    /\ scores_df[idx]["People & Operations"] = NoneValue
    /\ turn.service_calls = 1

-----------------------------------------------------------------------------
(* The recommendations extracted from a reply with markers (SpecRec).     *)

\* a line beginning with a digit or a dash, without its enumeration token: the
\* number and its punctuation, or the dash, and the blanks after it
EnumerationStripped(line) ==
    IF line[1] \in DigitChars
    THEN Strip(LStripChars(LStripChars(line, DigitChars), {".", ")", ":"}))
    ELSE Strip(Tail(line))

\* the lines after the RECOMMENDATIONS marker that begin with a digit or a
\* dash, in order, each without its enumeration token
EnumeratedRemainders(result) ==
    LET parts == SplitOn(result, RecommendationsMarker)
        lines == IF Len(parts) > 1 THEN MapStrip(SplitChar(parts[2], "\n")) ELSE <<>>
        enumerated == SelectSeq(lines, IsEnumerated)
    IN  [i \in 1..Len(enumerated) |-> EnumerationStripped(enumerated[i])]

MarkedReplyReturned ==
    /\ Returned
    /\ service_outcome.kind = "reply"
    /\ Contains(service_outcome.content, SummaryMarker)

\* C11: for a reply with the SUMMARY marker the recommendations returned are,
\* in order, the first four of the lines after the RECOMMENDATIONS marker that
\* begin with a digit or a dash, each with only its enumeration token removed
\* and the whole remainder of the line kept.
C11_RemainderKept ==
    MarkedReplyReturned =>
        LET expected == EnumeratedRemainders(service_outcome.content)
            n == Min(Len(expected), 4)
        IN  SubSeq(rec_result.recommendations, 1, n) = SubSeq(expected, 1, n)

-----------------------------------------------------------------------------
(* generate_recommendations: the two listings of its prompt.              *)
(*                                                                         *)
(* An entry of a listing is [cleaned |-> question, score |-> response].   *)

\* q_score is not None and isinstance(q_score, (int, float)): NaN is a float
IsNumberObject(value) == value.kind \in {"num", "nan"}

\* client_responses.get(cleaned_q, None)
ResponseOf(responses, cleaned_q) ==
    IF cleaned_q \in DOMAIN responses THEN responses[cleaned_q] ELSE NoneValue

\* all_questions_context before it is sorted: one entry per question whose
\* response is a number object, in question order
RECURSIVE QuestionInfos(_, _)
QuestionInfos(questions, responses) ==
    IF questions = <<>> THEN <<>>
    ELSE LET cleaned_q == Head(questions)
             q_score == ResponseOf(responses, cleaned_q)
             rest == QuestionInfos(Tail(questions), responses)
         IN  IF IsNumberObject(q_score)
             THEN <<[cleaned |-> cleaned_q, score |-> q_score]>> \o rest
             ELSE rest

\* q_score <= 2, which is False for NaN
IsLowScore(info) == info.score.kind = "num" /\ info.score.tenths <= 20

\* low_scoring_questions before it is sorted
LowScoring(infos) == SelectSeq(infos, IsLowScore)

\* low_scoring_questions[:3]
FocusCap == 3

\* x inserted into a list sorted by score, after the entries not greater
InsertByScore(sorted, x) ==
    LET k == Cardinality({i \in 1..Len(sorted) : sorted[i].score.tenths <= x.score.tenths})
    IN  SubSeq(sorted, 1, k) \o <<x>> \o SubSeq(sorted, k + 1, Len(sorted))

\* list.sort(key=score) on numbers: ascending and stable
RECURSIVE SortByScore(_)
SortByScore(infos) ==
    IF infos = <<>> THEN <<>>
    ELSE InsertByScore(SortByScore(SubSeq(infos, 1, Len(infos) - 1)), infos[Len(infos)])

\* what list.sort(key=score) can leave: the sorted list, or, when a score is
\* NaN and every comparison with it is False, some rearrangement of the list
SortOutcomes(infos) ==
    IF \A i \in 1..Len(infos) : infos[i].score.kind = "num"
    THEN {SortByScore(infos)}
    ELSE {[i \in 1..Len(infos) |-> infos[p[i]]] : p \in Permutations(1..Len(infos))}

\* lines 224-251: the entries of questions_detail and of focus_areas, the
\* latter empty when the listing is omitted
BuildPrompt ==
    /\ promptPc = "start"
    /\ LET infos == QuestionInfos(questions_in_category, client_responses)
       IN  /\ \E sorted \in SortOutcomes(infos) : all_questions_context' = sorted
           /\ \E low \in SortOutcomes(LowScoring(infos)) :
                 focus_questions' = Prefix(low, FocusCap)
    /\ promptPc' = "built"
    /\ UNCHANGED <<questions_in_category, client_responses>>
    /\ UNCHANGED outsidePrompt

-----------------------------------------------------------------------------
(* Specification SpecPrompt: the prompt of one category of MaxPromptQuestions *)
(* questions, every response drawn from PromptCells.                       *)

MaxPromptQuestions == 4

PromptCells ==
    {Num(10), Num(20), Num(35), NaNValue, NoneValue, Str(<<" ", "2", ".", "5", " ">>)}

PromptQuestions == [i \in 1..MaxPromptQuestions |-> clean_column_name(QuestionLabel(i))]

PromptInit ==
    /\ NormIdle
    /\ MapIdle
    /\ ScoreIdle
    /\ RecIdle
    /\ MainIdle
    /\ SlideIdle
    /\ promptPc = "start"
    /\ questions_in_category = PromptQuestions
    /\ client_responses \in [Range(PromptQuestions) -> PromptCells]
    /\ all_questions_context = <<>>
    /\ focus_questions = <<>>

PromptNext == BuildPrompt

SpecPrompt == PromptInit /\ [][PromptNext]_vars

Listed == {all_questions_context[i].cleaned : i \in 1..Len(all_questions_context)}

\* the questions the category score is computed from
Scored ==
    {q \in Range(questions_in_category) :
        /\ IsPresent(client_responses[q])
        /\ InScoreRange(ToFloat(client_responses[q]))}

\* C12: the full listing holds exactly the answered questions, those with a
\* present response that the score is computed from, in ascending order of
\* score, and the needs-attention listing is the first three of the listed
\* questions that score at most 2, in that order.
C12_ListingsOfAnswered ==
    promptPc = "built" =>
        /\ \A q \in Listed : IsPresent(client_responses[q])
        /\ Scored \subseteq Listed
        /\ \A i, j \in 1..Len(all_questions_context) :
              i < j => all_questions_context[i].score.tenths
                          <= all_questions_context[j].score.tenths
        /\ focus_questions =
              Prefix(SelectSeq(all_questions_context, IsLowScore), FocusCap)

-----------------------------------------------------------------------------
(* Specification SpecSlide: find_text_boxes on a slide of at most MaxShapes *)
(* shapes drawn from ShapePool, then the writes of                          *)
(* generate_client_presentation into the slide for a score of SlideScores. *)

MaxShapes == 3

\* "Your score: Recommendation 1": a text holding both markers
BothMarkersText ==
    <<"Y", "o", "u", "r", " ", "s", "c", "o", "r", "e", ":", " ",
      "R", "e", "c", "o", "m", "m", "e", "n", "d", "a", "t", "i",
      "o", "n", " ", "1">>

\* a vertical line: {left: 300, top: 0, width: 0, height: 500}
TallLine ==
    [has_text |-> FALSE, text |-> <<>>, is_placeholder |-> FALSE, shape_type |-> 9,
     left |-> 300, top |-> 0, width |-> 0, height |-> 500, fill |-> "other"]

\* a 21 x 21 solid auto shape
OddCircle ==
    [has_text |-> TRUE, text |-> <<>>, is_placeholder |-> FALSE, shape_type |-> 1,
     left |-> 10, top |-> 10, width |-> 21, height |-> 21, fill |-> "solid"]

\* an auto shape of no extent
ZeroShape ==
    [has_text |-> TRUE, text |-> <<>>, is_placeholder |-> FALSE, shape_type |-> 1,
     left |-> 5, top |-> 5, width |-> 0, height |-> 0, fill |-> "solid"]

\* a 20 x 20 auto shape the query of whose fill raises
RaisingFillShape ==
    [has_text |-> TRUE, text |-> <<>>, is_placeholder |-> FALSE, shape_type |-> 1,
     left |-> 60, top |-> 60, width |-> 20, height |-> 20, fill |-> "raises"]

ShapePool ==
    {TextShape(ScoreLabelText, FALSE), TextShape(RecsMarker, FALSE),
     TextShape(BothMarkersText, FALSE), LineShape, TallLine, CircleShape,
     OddCircle, ZeroShape, RaisingFillShape}

RECURSIVE SlidesUpTo(_)
SlidesUpTo(n) ==
    IF n = 0 THEN {<<>>}
    ELSE LET shorter == SlidesUpTo(n - 1)
         IN  shorter \cup {Append(shapes, sh) : shapes \in shorter, sh \in ShapePool}

\* the means 1.0, 2.0, 17/6 and 4.0
SlideScores ==
    {[kind |-> "num", sum |-> 10, n |-> 1], [kind |-> "num", sum |-> 20, n |-> 1],
     [kind |-> "num", sum |-> 85, n |-> 3], [kind |-> "num", sum |-> 40, n |-> 1]}

SlideInit ==
    /\ NormIdle
    /\ MapIdle
    /\ ScoreIdle
    /\ RecIdle
    /\ MainIdle
    /\ PromptIdle
    /\ slidePc = "start"
    /\ slide \in SlidesUpTo(MaxShapes)
    /\ slide_elements = [raised |-> FALSE, score |-> 0, recommendations |-> 0,
                         orange_circle |-> 0, line |-> 0]
    /\ slide_score = [kind |-> "none"]
    /\ slide_after = <<>>

\* line 543: elements = find_text_boxes(slide), or the call raises
ResolveShapes ==
    /\ slidePc = "start"
    /\ slide_elements' = find_text_boxes(slide)
    /\ slidePc' = IF find_text_boxes(slide).raised THEN "raised" ELSE "resolved"
    /\ UNCHANGED <<slide, slide_score, slide_after>>
    /\ UNCHANGED outsideSlide

\* lines 560-618 with the score of the category
WriteSlide ==
    /\ slidePc = "resolved"
    /\ \E score \in SlideScores :
          /\ slide_score' = score
          /\ slide_after' = UpdatedSlide(slide, slide_elements, score,
                                         FallbackRecommendations)
    /\ slidePc' = "updated"
    /\ UNCHANGED <<slide, slide_elements>>
    /\ UNCHANGED outsideSlide

SlideNext == ResolveShapes \/ WriteSlide

SpecSlide == SlideInit /\ [][SlideNext]_vars


\* the slide has been written and both a reference line and an indicator had
\* been resolved
IndicatorAndLine ==
    /\ slidePc = "updated"
    /\ slide_elements.orange_circle # 0
    /\ slide_elements.line # 0

RefLine == slide[slide_elements.line]
IndicatorBefore == slide[slide_elements.orange_circle]
IndicatorAfter == slide_after[slide_elements.orange_circle]

\* L = int(num / den) for den > 0: num / den cut towards zero
IsIntOf(L, num, den) ==
    IF num >= 0
    THEN L * den <= num /\ num < (L + 1) * den
    ELSE (L - 1) * den < num /\ num <= L * den

\* left = int(line.left + line.width * score/4 - width/2) and
\* top = int(line.top + line.height/2 - height/2), the size kept
PlacedByFormula ==
    LET n == slide_score.n
    IN  /\ IsIntOf(IndicatorAfter.left,
                   40 * n * RefLine.left + RefLine.width * slide_score.sum
                       - 20 * n * IndicatorBefore.width,
                   40 * n)
        /\ IsIntOf(IndicatorAfter.top,
                   2 * RefLine.top + RefLine.height - IndicatorBefore.height, 2)
        /\ IndicatorAfter.width = IndicatorBefore.width
        /\ IndicatorAfter.height = IndicatorBefore.height

\* the line {left: 100, top: 50, width: 400, height: 10}, the score 2.0 and a
\* 20 x 20 indicator
WorkedExample ==
    /\ IndicatorAndLine
    /\ RefLine = LineShape
    /\ slide_score = [kind |-> "num", sum |-> 20, n |-> 1]
    /\ IndicatorBefore.width = 20
    /\ IndicatorBefore.height = 20

\* the indicator is where it was when no reference line was resolved
UnmovedWithoutLine ==
    (slidePc = "updated" /\ slide_elements.orange_circle # 0
        /\ slide_elements.line = 0) => IndicatorAfter = IndicatorBefore

\* twice the x of the indicator's centre
TwiceCentreX == 2 * IndicatorAfter.left + IndicatorAfter.width

\* C13 as stated: the indicator is placed by the two formulas, the worked
\* example gives left = 290 and top = 45, the centre x of the indicator lies
\* within [line.left, line.left + line.width], and the indicator is not moved
\* when the reference line is absent.
C13_CentreWithinLine ==
    /\ IndicatorAndLine =>
          /\ PlacedByFormula
          /\ 2 * RefLine.left <= TwiceCentreX
          /\ TwiceCentreX <= 2 * (RefLine.left + RefLine.width)
    /\ WorkedExample => IndicatorAfter.left = 290 /\ IndicatorAfter.top = 45
    /\ UnmovedWithoutLine

\* C13: the indicator is placed by the two formulas, the worked example gives
\* left = 290 and top = 45, the centre x of the indicator lies within one unit
\* of [line.left, line.left + line.width] (int() cuts a fraction), and the
\* indicator is not moved when the reference line is absent.
C13_IndicatorPlaced ==
    /\ IndicatorAndLine =>
          /\ PlacedByFormula
          /\ 2 * RefLine.left - 2 <= TwiceCentreX
          /\ TwiceCentreX <= 2 * (RefLine.left + RefLine.width) + 2
    /\ WorkedExample => IndicatorAfter.left = 290 /\ IndicatorAfter.top = 45
    /\ UnmovedWithoutLine

\* the worked example has been written
C13_Witness ==
    /\ WorkedExample
    /\ IndicatorAfter.left = 290
    /\ IndicatorAfter.top = 45
    /\ IndicatorAfter # IndicatorBefore


\* the classification of an auto shape fails: the query of its fill raises, or
\* the near-square test cannot be computed
ClassificationFails(shape) ==
    shape.shape_type = 1
    /\ (shape.fill = "raises" \/ Max(shape.width, shape.height) = 0)

\* C14: find_text_boxes never raises on a slide; an auto shape whose
\* classification fails is not an indicator candidate, and a role with no
\* matching element is returned as None.
C14_NeverRaises ==
    /\ slidePc # "raised"
    /\ slidePc \in {"resolved", "updated"} =>
          /\ slide_elements.orange_circle # 0 =>
                ~ClassificationFails(slide[slide_elements.orange_circle])
          /\ (\A i \in 1..Len(slide) : slide[i].shape_type # 9) =>
                slide_elements.line = 0
          /\ (\A i \in 1..Len(slide) : slide[i].shape_type # 1) =>
                slide_elements.orange_circle = 0
          /\ (\A i \in 1..Len(slide) : ~Contains(slide[i].text, ScoreMarker)) =>
                slide_elements.score = 0
          /\ (\A i \in 1..Len(slide) : ~Contains(slide[i].text, RecsMarker)) =>
                slide_elements.recommendations = 0

\* the first element, in slide order, whose text contains the marker; 0 when
\* there is none
FirstWithMarker(marker) ==
    IF \E i \in 1..Len(slide) : slide[i].has_text /\ Contains(slide[i].text, marker)
    THEN SetMin({i \in 1..Len(slide) :
                    slide[i].has_text /\ Contains(slide[i].text, marker)})
    ELSE 0

\* C15: the recommendations label is the first element whose text contains
\* "Recommendation 1" and the score label is the first element whose text
\* contains "Your score", also on a slide where one element's text contains
\* both markers.
C15_FirstMatchOfEachMarker ==
    slidePc \in {"resolved", "updated"} =>
        /\ slide_elements.score = FirstWithMarker(ScoreMarker)
        /\ slide_elements.recommendations = FirstWithMarker(RecsMarker)

LinePositions == {i \in 1..Len(slide) : slide[i].shape_type = 9}

\* the extent of a line along its primary axis
PrimaryExtent(shape) == Max(shape.width, shape.height)

\* C16: on a slide with two or more lines the reference line is a line of the
\* greatest extent along its primary axis, whatever the order and the
\* orientation of the lines, and never an element that is not a line.
C16_LongestLine ==
    (slidePc \in {"resolved", "updated"} /\ Cardinality(LinePositions) >= 2) =>
        /\ slide_elements.line \in LinePositions
        /\ \A i \in LinePositions :
              PrimaryExtent(slide[i]) <= PrimaryExtent(slide[slide_elements.line])

=============================================================================
